---------------------------- MODULE Spec2Model ----------------------------
(***************************************************************************)
(* A model of the cosmic ray detector: the Detector of src/src/detector.rs *)
(* (both the sequential build and the build with the "rayon" feature),     *)
(* the memory exposed to bit flips, and the passes its operations make     *)
(* over that memory.                                                       *)
(***************************************************************************)
EXTENDS Naturals, Integers, Sequences, FiniteSets, TLC

(***************************************************************************)
(* Bounds of the model.                                                    *)
(***************************************************************************)
\* largest capacity_bytes handed to Detector::new
MaxLen == 2
\* bytes are drawn from 0..MaxByte together with the priming value
MaxByte == 1

(***************************************************************************)
(* Program constants.                                                      *)
(***************************************************************************)
\* the value reset() writes first when the default is zero
PRIMING == 42

Bytes == (0 .. MaxByte) \cup {PRIMING}

\* Option<T>: None is the empty sequence, Some(x) a one-element sequence
None == << >>
Some(x) == << x >>

\* Result<T, E>
Ok(x) == << "Ok", x >>
Err(e) == << "Err", e >>
is_ok(r) == r[1] = "Ok"

\* the unit value returned by write and reset
Unit == << >>

(***************************************************************************)
(* The state.                                                              *)
(*   rayon          whether the build has the "rayon" feature              *)
(*   default        Detector.default                                       *)
(*   detector_mass  Detector.detector_mass, a sequence of bytes; the byte  *)
(*                  at Rust index i is detector_mass[i + 1]                *)
(*   pc             where the caller is: "start" before construction,      *)
(*                  "aborted" or "panicked" when construction ended the    *)
(*                  process,                                               *)
(*                  "idle" between calls, "write" inside a pass of write,  *)
(*                  "scan" inside position_of_changed_element, "get"       *)
(*                  between the scan and the read of the value found       *)
(*   op, arg, ret   the call in flight or last returned, its argument and  *)
(*                  its return value (empty while the call is in flight)   *)
(*   passes         the values write still has to write over the buffer,   *)
(*                  the pass in progress first                             *)
(*   workers        the partitions of the pass or scan in progress         *)
(*   found          the shared early-exit flag of position_any             *)
(*   pos            the index the scan returned, kept for the re-read      *)
(*   prev           the call that returned before the one in `op`, with   *)
(*                  the default and the buffer it left, kept as long as no *)
(*                  bit has flipped since it began                         *)
(*   flipped_cur    a bit flip happened since the call in `op` began       *)
(*   primed         the indices this call has written a non-zero value to  *)
(*   passlog        the values of the passes this call has begun           *)
(***************************************************************************)
VARIABLES rayon, default, detector_mass, pc, op, arg, ret, passes, workers,
          found, pos, prev, flipped_cur, primed, passlog

(***************************************************************************)
(* What surrounds the Detector.                                            *)
(*   platform       the operating system the program is built for          *)
(*   main           the locals of fn main of src/src/main.rs, the driver   *)
(*                  that keeps its own buffer, and what it has printed     *)
(*   cli            a command line value and what its parser made of it    *)
(***************************************************************************)
VARIABLES platform, main, cli

\* the state outside the Detector
others == << platform, main, cli >>

vars == << rayon, default, detector_mass, pc, op, arg, ret, passes, workers,
           found, pos, prev, flipped_cur, primed, passlog, platform, main,
           cli >>

(***************************************************************************)
(* Pure helpers.                                                           *)
(***************************************************************************)
\* repeat_n as a bug would have it: the buffer is zero-filled, whatever the
\* default
repeat_n_zeroed(v, n) == [ k \in 1 .. n |-> 0 ]

\* core::iter::repeat_n(default, capacity_bytes).collect()
repeat_n(v, n) == [ k \in 1 .. n |-> v ]

\* Detector::new
new(v, capacity_bytes) ==
    [ default |-> v, detector_mass |-> repeat_n(v, capacity_bytes) ]

\* Detector::len
len(mass) == Len(mass)

\* get as a bug would have it: the bound is checked one short, so the last
\* byte cannot be read
get_one_short(mass, index) ==
    IF index + 1 < Len(mass) THEN Some(mass[index + 1]) ELSE None

\* Detector::get: bounds-checked read of one byte
get(mass, index) ==
    IF index < Len(mass) THEN Some(mass[index + 1]) ELSE None

\* the indices whose byte differs from the default
Changed(mass, d) == { i \in 0 .. Len(mass) - 1 : mass[i + 1] # d }

Min(S) == CHOOSE m \in S : \A k \in S : m <= k

\* the largest number of a set
Max(S) == CHOOSE m \in S : \A k \in S : k <= m

\* iter().position(|r| read_volatile(r) != default) on a buffer at rest
position(mass, d) ==
    IF Changed(mass, d) = {} THEN None ELSE Some(Min(Changed(mass, d)))

\* reset as a bug would have it: the priming value is written and the
\* default is never restored
reset_passes_unrestored(d) ==
    IF d = 0 THEN << PRIMING >> ELSE << d >>

\* reset as a bug would have it: the default is written at once, with no
\* priming pass
reset_passes_unprimed(d) == << d >>

\* the passes reset makes: write(42) when the default is zero, then
\* write(default)
reset_passes(d) ==
    IF d = 0 THEN << PRIMING, d >> ELSE << d >>

\* the passes write(value) makes
write_passes(value) == << value >>

\* is_intact: position_and_value_of_changed_element().is_none()
is_none(o) == o = None


(***************************************************************************)
(* Partitions of an iteration over the buffer.                             *)
(***************************************************************************)
\* the ways rayon splits the index range lo..hi-1 among its workers: a
\* range is taken whole by one worker or split at its midpoint
RECURSIVE Splits(_, _)
Splits(lo, hi) ==
    IF hi - lo < 2
    THEN { << << lo, hi >> >> }
    ELSE LET mid == lo + ((hi - lo) \div 2)
         IN  { << << lo, hi >> >> }
             \cup { l \o r : l \in Splits(lo, mid), r \in Splits(mid, hi) }

\* the partitions as a bug would have them: the sequential build splits the
\* buffer too
Partitions_always_split(par, n) == Splits(0, n)

\* par_iter()/par_iter_mut() with the rayon feature, iter()/iter_mut()
\* without it: the partitions one pass over n bytes may be split into
Partitions(par, n) ==
    IF par THEN Splits(0, n) ELSE { << << 0, n >> >> }

\* the workers as a bug would have them: each starts at the second index of
\* its partition
Workers_skip_first(p) ==
    [ w \in 1 .. Len(p) |->
        [ lo |-> p[w][1], hi |-> p[w][2],
          cur |-> IF p[w][1] = p[w][2] THEN p[w][1] ELSE p[w][1] + 1,
          st |-> IF p[w][1] + 1 >= p[w][2] THEN "stop" ELSE "run",
          hit |-> None ] ]

\* the workers of one iteration (for_each, position, position_any) over the
\* partitions p: each goes through the indices lo..hi-1 of its partition in
\* order, cur being the next one; hit is the index a scanning worker found
Workers(p) ==
    [ w \in 1 .. Len(p) |->
        [ lo |-> p[w][1], hi |-> p[w][2], cur |-> p[w][1],
          st |-> IF p[w][1] = p[w][2] THEN "stop" ELSE "run", hit |-> None ] ]

\* the join as a bug would have it: the first partition to finish ends the
\* iteration
AnyStopped(ws) == \E w \in 1 .. Len(ws) : ws[w].st = "stop"

\* for_each, position and position_any return once every partition is done
AllStopped(ws) == \A w \in 1 .. Len(ws) : ws[w].st = "stop"

\* the result of the scan as a bug would have it: only the first
\* partition's hit is looked at
scan_result_first_only(ws) ==
    IF Len(ws) = 0 THEN None ELSE ws[1].hit

\* the result of the scan as a bug would have it: the hit is counted from
\* the beginning of its partition, not of the buffer
scan_result_partition_relative(ws) ==
    LET hits == { w \in 1 .. Len(ws) : ws[w].hit # None }
    IN  IF hits = {} THEN None
        ELSE Some(ws[Min(hits)].hit[1] - ws[Min(hits)].lo)

\* what position / position_any returns once every worker has stopped:
\* the hit of the leftmost partition that has one (left.or(right))
scan_result(ws) ==
    LET hits == { w \in 1 .. Len(ws) : ws[w].hit # None }
    IN  IF hits = {} THEN None ELSE ws[Min(hits)].hit

(***************************************************************************)
(* Init: nothing is constructed yet.                                       *)
(***************************************************************************)
\* fn main is not running
MainNotRun == [ pc |-> "off" ]

\* no command line value is being parsed
CliUnused == [ pc |-> "off" ]

NoCall == [ op |-> "none", arg |-> << >>, ret |-> << >>, default |-> 0,
            mass |-> << >> ]

Init ==
    /\ rayon \in BOOLEAN
    /\ default = 0
    /\ detector_mass = << >>
    /\ pc = "start"
    /\ op = "none"
    /\ arg = << >>
    /\ ret = << >>
    /\ passes = << >>
    /\ workers = << >>
    /\ found = FALSE
    /\ pos = None
    /\ prev = NoCall
    /\ flipped_cur = FALSE
    /\ primed = {}
    /\ passlog = << >>
    /\ platform = "linux"
    /\ main = MainNotRun
    /\ cli = CliUnused

\* the bookkeeping of a call: the call that had returned becomes `prev`
Call(name, a) ==
    /\ pc = "idle"
    /\ op' = name
    /\ arg' = a
    /\ prev' = IF flipped_cur THEN NoCall
               ELSE [ op |-> op, arg |-> arg, ret |-> ret,
                      default |-> default, mass |-> detector_mass ]
    /\ flipped_cur' = FALSE

(***************************************************************************)
(* Detector::new(default, capacity_bytes)                                  *)
(***************************************************************************)
New(v, capacity_bytes) ==
    /\ pc = "start"
    /\ default' = new(v, capacity_bytes).default
    /\ detector_mass' = new(v, capacity_bytes).detector_mass
    /\ pc' = "idle"
    /\ op' = "new"
    /\ arg' = << v, capacity_bytes >>
    /\ ret' = Unit
    /\ UNCHANGED << rayon, passes, workers, found, pos, prev, flipped_cur, primed, passlog >>
    /\ UNCHANGED others

\* Detector::new when the allocator cannot supply capacity_bytes: collect()
\* does not return, the process ends inside the call and the caller gets
\* neither a Detector nor an error value (an empty buffer needs no
\* allocation)
NewAborts(v, capacity_bytes) ==
    /\ pc = "start"
    /\ capacity_bytes > 0
    /\ pc' = "aborted"
    /\ op' = "new"
    /\ arg' = << v, capacity_bytes >>
    /\ UNCHANGED << rayon, default, detector_mass, ret, passes, workers,
                    found, pos, prev, flipped_cur, primed, passlog >>
    /\ UNCHANGED others

(***************************************************************************)
(* Detector::write and Detector::reset                                     *)
(***************************************************************************)
\* the beginning of the pass that writes Head(ps)
BeginPasses(ps) ==
    /\ ret' = << >>
    /\ passes' = ps
    /\ primed' = {}
    /\ passlog' = << Head(ps) >>
    /\ \E p \in Partitions(rayon, len(detector_mass)) : workers' = Workers(p)
    /\ pc' = "write"

CallWrite(value) ==
    /\ Call("write", << value >>)
    /\ BeginPasses(write_passes(value))
    /\ UNCHANGED << rayon, default, detector_mass, found, pos >>
    /\ UNCHANGED others

CallReset ==
    /\ Call("reset", << >>)
    /\ BeginPasses(reset_passes(default))
    /\ UNCHANGED << rayon, default, detector_mass, found, pos >>
    /\ UNCHANGED others

\* one worker's write_volatile(n, value) to the next byte of its partition
WriteStep(w) ==
    /\ pc = "write"
    /\ w \in 1 .. Len(workers)
    /\ workers[w].st = "run"
    /\ LET i == workers[w].cur
       IN  /\ detector_mass' = [ detector_mass EXCEPT ![i + 1] = Head(passes) ]
           /\ workers' = [ workers EXCEPT
                             ![w].cur = i + 1,
                             ![w].st = IF i + 1 = workers[w].hi
                                       THEN "stop" ELSE "run" ]
           /\ primed' = IF Head(passes) # 0
                        THEN primed \cup {i} ELSE primed
    /\ UNCHANGED << rayon, default, pc, op, arg, ret, passes, found, pos,
                    prev, flipped_cur, passlog >>
    /\ UNCHANGED others

\* for_each returns once every partition is done: the next pass begins, or
\* the call returns
WriteJoin ==
    /\ pc = "write"
    /\ AllStopped(workers)
    /\ IF Len(passes) > 1
       THEN /\ passes' = Tail(passes)
            /\ passlog' = Append(passlog, passes[2])
            /\ \E p \in Partitions(rayon, len(detector_mass)) :
                   workers' = Workers(p)
            /\ UNCHANGED << pc, ret >>
       ELSE /\ passes' = << >>
            /\ workers' = << >>
            /\ pc' = "idle"
            /\ ret' = Unit
            /\ UNCHANGED passlog
    /\ UNCHANGED << rayon, default, detector_mass, op, arg, found, pos, prev,
                    flipped_cur, primed >>
    /\ UNCHANGED others

(***************************************************************************)
(* A bit flip: the memory changes a byte without the program writing it.   *)
(***************************************************************************)
Flip(i, v) ==
    /\ pc # "start"
    /\ i < len(detector_mass)
    /\ detector_mass[i + 1] # v
    /\ detector_mass' = [ detector_mass EXCEPT ![i + 1] = v ]
    /\ flipped_cur' = TRUE
    /\ prev' = NoCall
    /\ UNCHANGED << rayon, default, pc, op, arg, ret, passes, workers, found,
                    pos, primed, passlog >>
    /\ UNCHANGED others

(***************************************************************************)
(* The scans: position_of_changed_element, and on top of it                *)
(* position_and_value_of_changed_element and is_intact                     *)
(***************************************************************************)
\* the beginning of position_of_changed_element
BeginScan ==
    /\ \E p \in Partitions(rayon, len(detector_mass)) : workers' = Workers(p)
    /\ found' = FALSE
    /\ pos' = None
    /\ pc' = "scan"
    /\ ret' = << >>
    /\ passes' = << >>
    /\ passlog' = << >>
    /\ primed' = {}

CallPosition ==
    /\ Call("position_of_changed_element", << >>)
    /\ BeginScan
    /\ UNCHANGED << rayon, default, detector_mass >>
    /\ UNCHANGED others

CallPositionAndValue ==
    /\ Call("position_and_value_of_changed_element", << >>)
    /\ BeginScan
    /\ UNCHANGED << rayon, default, detector_mass >>
    /\ UNCHANGED others

CallIsIntact ==
    /\ Call("is_intact", << >>)
    /\ BeginScan
    /\ UNCHANGED << rayon, default, detector_mass >>
    /\ UNCHANGED others

\* the predicate on the next byte of a partition:
\* read_volatile(r) != default; a hit raises the early-exit flag
ScanRead(w) ==
    /\ pc = "scan"
    /\ w \in 1 .. Len(workers)
    /\ workers[w].st = "run"
    /\ LET i == workers[w].cur
       IN  IF detector_mass[i + 1] # default
           THEN /\ workers' = [ workers EXCEPT ![w].hit = Some(i),
                                               ![w].st = "stop" ]
                /\ found' = TRUE
           ELSE /\ workers' = [ workers EXCEPT
                                  ![w].cur = i + 1,
                                  ![w].st = IF i + 1 = workers[w].hi
                                            THEN "stop" ELSE "run" ]
                /\ UNCHANGED found
    /\ UNCHANGED << rayon, default, detector_mass, pc, op, arg, ret, passes,
                    pos, prev, flipped_cur, primed, passlog >>
    /\ UNCHANGED others

\* a worker sees the early-exit flag another worker raised and gives up
\* what is left of its partition; the flag is read with relaxed ordering,
\* so a worker may also go on reading for a while after it is raised
ScanStop(w) ==
    /\ pc = "scan"
    /\ w \in 1 .. Len(workers)
    /\ workers[w].st = "run"
    /\ found
    /\ workers' = [ workers EXCEPT ![w].st = "stop" ]
    /\ UNCHANGED << rayon, default, detector_mass, pc, op, arg, ret, passes,
                    found, pos, prev, flipped_cur, primed, passlog >>
    /\ UNCHANGED others

\* the pair as a bug would have it: value and index swapped
with_index_swapped(i, o) == IF o = None THEN None ELSE Some(<< o[1], i >>)

\* self.get(i).map(|v| (i, v))
with_index(i, o) == IF o = None THEN None ELSE Some(<< i, o[1] >>)

\* position_and_value_of_changed_element as a bug would have it: the Some
\* arm is lost
position_and_value_lost(p, mass) == None

\* position_and_value_of_changed_element, given what the scan returned and
\* the buffer as it is when the value is read
position_and_value(p, mass) ==
    IF p = None THEN None ELSE with_index(p[1], get(mass, p[1]))

\* what the call `name` returns for the Option<(usize, u8)> o
returned(name, o) ==
    IF name = "is_intact" THEN << is_none(o) >> ELSE o

\* the scan is over: position_of_changed_element returns; the two callers
\* on top of it return at once on None and go on to read the value on Some
ScanJoin ==
    /\ pc = "scan"
    /\ AllStopped(workers)
    /\ LET r == scan_result(workers)
       IN  IF op = "position_of_changed_element"
           THEN /\ ret' = r
                /\ pc' = "idle"
                /\ pos' = None
           ELSE IF r = None
           THEN /\ ret' = returned(op, position_and_value(r, detector_mass))
                /\ pc' = "idle"
                /\ pos' = None
           ELSE /\ pos' = r
                /\ pc' = "get"
                /\ UNCHANGED ret
    /\ workers' = << >>
    /\ found' = FALSE
    /\ UNCHANGED << rayon, default, detector_mass, op, arg, passes, prev,
                    flipped_cur, primed, passlog >>
    /\ UNCHANGED others

\* the value at the index the scan returned is read, and the call returns
ReadValue ==
    /\ pc = "get"
    /\ ret' = returned(op, position_and_value(pos, detector_mass))
    /\ pc' = "idle"
    /\ pos' = None
    /\ UNCHANGED << rayon, default, detector_mass, op, arg, passes, workers,
                    found, prev, flipped_cur, primed, passlog >>
    /\ UNCHANGED others

(***************************************************************************)
(* Detector::get(index)                                                    *)
(***************************************************************************)
Get(index) ==
    /\ Call("get", << index >>)
    /\ ret' = get(detector_mass, index)
    /\ passlog' = << >>
    /\ primed' = {}
    /\ UNCHANGED << rayon, default, detector_mass, pc, passes, workers, found,
                    pos >>
    /\ UNCHANGED others

Next ==
    \/ \E v \in Bytes, n \in 0 .. MaxLen : New(v, n)
    \/ \E v \in Bytes, n \in 0 .. MaxLen : NewAborts(v, n)
    \/ \E value \in Bytes : CallWrite(value)
    \/ CallReset
    \/ \E w \in 1 .. MaxLen : WriteStep(w)
    \/ WriteJoin
    \/ CallPosition
    \/ CallPositionAndValue
    \/ CallIsIntact
    \/ \E w \in 1 .. MaxLen : ScanRead(w)
    \/ \E w \in 1 .. MaxLen : ScanStop(w)
    \/ ScanJoin
    \/ ReadValue
    \/ \E index \in 0 .. MaxLen : Get(index)
    \/ \E i \in 0 .. MaxLen - 1, v \in Bytes : Flip(i, v)

Spec == Init /\ [][Next]_vars

(***************************************************************************)
(* Strings and numbers of the command line.                                *)
(* A string is the sequence of the code points of its characters.         *)
(***************************************************************************)

\* the printable characters of ASCII in the order of their code points:
\* from the space (32) to the underscore (95), and from the small a (97)
\* to the tilde (126)
AsciiFromSpace ==
    << " ", "!", "\"", "#", "$", "%", "&", "'", "(", ")", "*", "+",
       ",", "-", ".", "/", "0", "1", "2", "3", "4", "5", "6", "7",
       "8", "9", ":", ";", "<", "=", ">", "?", "@", "A", "B", "C",
       "D", "E", "F", "G", "H", "I", "J", "K", "L", "M", "N", "O",
       "P", "Q", "R", "S", "T", "U", "V", "W", "X", "Y", "Z", "[",
       "\\", "]", "^", "_" >>

AsciiFromSmallA ==
    << "a", "b", "c", "d", "e", "f", "g", "h", "i", "j", "k", "l",
       "m", "n", "o", "p", "q", "r", "s", "t", "u", "v", "w", "x",
       "y", "z", "{", "|", "}", "~" >>

\* the place of c in the sequence s, zero if it has none
place(c, s) ==
    IF \E k \in 1 .. Len(s) : s[k] = c
    THEN CHOOSE k \in 1 .. Len(s) : s[k] = c
    ELSE 0

\* a character is its Unicode code point, as a `char` of the program is;
\* char(c) is the code point of the character written c: of a printable
\* character of ASCII, or of one of three others the model writes
char(c) ==
    CASE c = "µ" -> 181
      [] c = "é" -> 233
      [] c = "€" -> 8364
      [] place(c, AsciiFromSpace) > 0 -> 31 + place(c, AsciiFromSpace)
      [] place(c, AsciiFromSmallA) > 0 -> 96 + place(c, AsciiFromSmallA)

\* a string is the sequence of its characters; text(s) is the string
\* written as the sequence s of one-character strings
text(s) == [ k \in 1 .. Len(s) |-> char(s[k]) ]

AsciiDigits == char("0") .. char("9")

\* char::is_ascii_digit, char::is_digit(10)
is_ascii_digit(c) == c \in AsciiDigits

digit_value(c) == c - char("0")

digit_char(d) == char("0") + d

RECURSIVE pow2(_)
pow2(i) == IF i = 0 THEN 1 ELSE 2 * pow2(i - 1)

(***************************************************************************)
(* Natural numbers of any size (a usize and the 53-bit mantissa of an f64  *)
(* are beyond the integers of the model checker): the sequence of the      *)
(* digits of the number in base LIMB, the least significant first, the     *)
(* most significant not zero; zero is the empty sequence.                  *)
(***************************************************************************)
LIMB == pow2(15)

\* a without the zeros at its most significant end
RECURSIVE trim(_)
trim(a) ==
    IF a # << >> /\ a[Len(a)] = 0 THEN trim(SubSeq(a, 1, Len(a) - 1)) ELSE a

\* the number n
RECURSIVE big(_)
big(n) == IF n = 0 THEN << >> ELSE << n % LIMB >> \o big(n \div LIMB)

\* a + b + carry
RECURSIVE big_add(_, _, _)
big_add(a, b, carry) ==
    IF a = << >> /\ b = << >> THEN big(carry)
    ELSE LET x == (IF a = << >> THEN 0 ELSE a[1])
                  + (IF b = << >> THEN 0 ELSE b[1]) + carry
         IN  << x % LIMB >>
             \o big_add(IF a = << >> THEN << >> ELSE Tail(a),
                        IF b = << >> THEN << >> ELSE Tail(b), x \div LIMB)

\* a * k + carry, for k below LIMB
RECURSIVE big_scale(_, _, _)
big_scale(a, k, carry) ==
    IF a = << >> THEN big(carry)
    ELSE LET x == a[1] * k + carry
         IN  << x % LIMB >> \o big_scale(Tail(a), k, x \div LIMB)

\* a * b
RECURSIVE big_mul(_, _)
big_mul(a, b) ==
    IF a = << >> \/ b = << >> THEN << >>
    ELSE LET rest == big_mul(a, Tail(b))
         IN  big_add(trim(big_scale(a, b[1], 0)),
                     IF rest = << >> THEN << >> ELSE << 0 >> \o rest, 0)

\* the quotient q and the remainder r of a by d, for d below LIMB
RECURSIVE big_divmod(_, _)
big_divmod(a, d) ==
    IF a = << >> THEN [ q |-> << >>, r |-> 0 ]
    ELSE LET high == big_divmod(Tail(a), d)
             x == high.r * LIMB + a[1]
         IN  [ q |-> trim(<< x \div d >> \o high.q), r |-> x % d ]

\* a < b
RECURSIVE big_less(_, _)
big_less(a, b) ==
    IF Len(a) # Len(b) THEN Len(a) < Len(b)
    ELSE IF a = << >> THEN FALSE
    ELSE IF a[Len(a)] # b[Len(b)] THEN a[Len(a)] < b[Len(b)]
    ELSE big_less(SubSeq(a, 1, Len(a) - 1), SubSeq(b, 1, Len(b) - 1))

\* 2^n
big_pow2(n) == [ k \in 1 .. n \div 15 |-> 0 ] \o << pow2(n % 15) >>

\* a >= 2^n
at_least_pow2(a, n) == ~big_less(a, big_pow2(n))

\* 10^k and 5^k
RECURSIVE big_pow10(_)
big_pow10(k) ==
    IF k = 0 THEN big(1)
    ELSE IF k % 2 = 1 THEN big_scale(big_pow10(k - 1), 10, 0)
    ELSE big_mul(big_pow10(k \div 2), big_pow10(k \div 2))

RECURSIVE big_pow5(_)
big_pow5(k) == IF k = 0 THEN big(1) ELSE big_scale(big_pow5(k - 1), 5, 0)

\* a - 1, for a above zero
RECURSIVE big_pred(_)
big_pred(a) ==
    IF a[1] > 0 THEN trim(<< a[1] - 1 >> \o Tail(a))
    ELSE << LIMB - 1 >> \o big_pred(Tail(a))

odd(a) == a # << >> /\ a[1] % 2 = 1

half(a) == big_divmod(a, 2).q

\* a * 2^n
shift_left(a, n) ==
    trim(big_scale([ k \in 1 .. n \div 15 |-> 0 ] \o a, pow2(n % 15), 0))

\* the whole part of a / 2^n
shift_right(a, n) ==
    IF n \div 15 >= Len(a) THEN << >>
    ELSE big_divmod(SubSeq(a, n \div 15 + 1, Len(a)), pow2(n % 15)).q

\* 2^n divides a
divisible_by_pow2(a, n) ==
    /\ \A k \in 1 .. Min({ n \div 15, Len(a) }) : a[k] = 0
    /\ n \div 15 < Len(a) => a[n \div 15 + 1] % pow2(n % 15) = 0

\* the number of the binary digits of a
bit_length(a) ==
    IF a = << >> THEN 0
    ELSE 15 * (Len(a) - 1)
         + CHOOSE b \in 1 .. 15 :
               pow2(b - 1) <= a[Len(a)] /\ a[Len(a)] < pow2(b)

(***************************************************************************)
(* A usize is written as the sequence of its decimal digits (numbers 0..9, *)
(* the most significant first, no zero in front; zero is << 0 >>).         *)
(***************************************************************************)
RECURSIVE digits_of(_)
digits_of(a) ==
    IF a = << >> THEN << >>
    ELSE digits_of(big_divmod(a, 10).q) \o << big_divmod(a, 10).r >>

decimal(a) == IF a = << >> THEN << 0 >> ELSE digits_of(a)

\* the number of the decimal digits ds
RECURSIVE big_of_decimal(_)
big_of_decimal(ds) ==
    IF Len(ds) <= 1 THEN big(IF ds = << >> THEN 0 ELSE ds[1])
    ELSE LET low == Len(ds) \div 2
         IN  big_add(big_mul(big_of_decimal(SubSeq(ds, 1, Len(ds) - low)),
                             big_pow10(low)),
                     big_of_decimal(SubSeq(ds, Len(ds) - low + 1, Len(ds))),
                     0)

\* the decimal digits of the small number n
decimal_of(n) == decimal(big(n))

\* the small number of the decimal digits ds
RECURSIVE value_of(_)
value_of(ds) ==
    IF ds = << >> THEN 0
    ELSE 10 * value_of(SubSeq(ds, 1, Len(ds) - 1)) + ds[Len(ds)]

\* usize::MAX of a 64-bit target, 2^64 - 1
USIZE_MAX == decimal(big_pred(big_pow2(64)))

\* format!("{s}") of a usize
to_string(s) == [ k \in 1 .. Len(s) |-> digit_char(s[k]) ]

\* the values of the digits of a string of digits
digit_values(str) == [ k \in 1 .. Len(str) |-> digit_value(str[k]) ]

all_digits(str) == \A k \in 1 .. Len(str) : is_ascii_digit(str[k])

\* the digits of a usize are read from the left: a character that is no
\* digit ends the reading with one error, a number beyond usize::MAX,
\* when it is multiplied by ten or when the digit is added, with the other
RECURSIVE read_digits(_, _)
read_digits(str, result) ==
    IF str = << >> THEN Ok(decimal(result))
    ELSE IF ~is_ascii_digit(Head(str))
    THEN Err("invalid digit found in string")
    ELSE LET next == trim(big_scale(result, 10, digit_value(Head(str))))
         IN  IF at_least_pow2(next, 64)
             THEN Err("number too large to fit in target type")
             ELSE read_digits(Tail(str), next)

\* str::parse::<usize>() and str::parse::<u64>(): an optional '+', then
\* one digit at least and digits only, of a number of 2^64 - 1 at most; the
\* error is the text of the ParseIntError
parse_usize(str) ==
    IF str = << >> THEN Err("cannot parse integer from empty string")
    ELSE IF Len(str) > 1 /\ str[1] = char("+")
    THEN read_digits(Tail(str), << >>)
    ELSE read_digits(str, << >>)

(***************************************************************************)
(* An f64 that is not below zero: [m, x] is the number m * 2^x, with the   *)
(* mantissa m from 2^52 to 2^53 - 1 and x up to MAX_EXP - 53 (a normal     *)
(* number), or m below 2^52 and x = MIN_EXP - 53 (a subnormal number), or   *)
(* zero.  As in the encoding of IEEE 754 the exponent after the largest    *)
(* stands for infinity and for NaN.                                        *)
(***************************************************************************)
\* f64::MANTISSA_DIGITS, f64::MAX_EXP, f64::MIN_EXP
MANTISSA_DIGITS == 53

MAX_EXP == 1024

MIN_EXP == 0 - 1021

Zero == [ m |-> << >>, x |-> 0 ]

Infinity == [ m |-> << >>, x |-> MAX_EXP - MANTISSA_DIGITS + 1 ]

NaN == [ m |-> big(1), x |-> MAX_EXP - MANTISSA_DIGITS + 1 ]

is_finite(a) == a.x <= MAX_EXP - MANTISSA_DIGITS

\* the f64 of the mantissa m and the exponent x, once rounded: beyond the
\* largest exponent it is infinity
finite(m, x) ==
    IF m = << >> THEN Zero
    ELSE IF x > MAX_EXP - MANTISSA_DIGITS THEN Infinity
    ELSE [ m |-> m, x |-> x ]

\* the f64 nearest to n * 2^x, or, with sticky set, to a number above
\* n * 2^x and below (n + 1) * 2^x: IEEE 754 round to nearest, ties to even.
\* The last binary digit of the result stands for 2^e: of the digits of n
\* the first 53 are kept, or fewer where the number is subnormal; the next
\* one and whether anything follows it decide the rounding.  (With sticky
\* set n has digits to drop.)
round_f64(n, x, sticky) ==
    IF n = << >> THEN Zero
    ELSE LET e == Max({ x + bit_length(n) - MANTISSA_DIGITS,
                        MIN_EXP - MANTISSA_DIGITS })
             drop == e - x
         IN  IF drop <= 0 THEN finite(shift_left(n, 0 - drop), e)
             ELSE LET kept == shift_right(n, drop)
                      next == odd(shift_right(n, drop - 1))
                      rest == sticky \/ ~divisible_by_pow2(n, drop - 1)
                      up == next /\ (rest \/ odd(kept))
                      rounded == IF up THEN big_add(kept, big(1), 0)
                                 ELSE kept
                  IN  IF at_least_pow2(rounded, MANTISSA_DIGITS)
                      THEN finite(half(rounded), e + 1)
                      ELSE finite(rounded, e)

\* the f64 nearest to n / 10^k: n with `limbs` zeros put below it, which
\* is more than 10^k * 2^54, is divided by ten k times (by 10^4 while it can
\* be), a remainder left on the way making the quotient inexact
RECURSIVE tenths(_, _, _)
tenths(n, k, sticky) ==
    IF k = 0 THEN [ n |-> n, sticky |-> sticky ]
    ELSE IF k >= 4
    THEN tenths(big_divmod(n, 10000).q, k - 4,
                sticky \/ big_divmod(n, 10000).r # 0)
    ELSE tenths(big_divmod(n, 10).q, k - 1,
                sticky \/ big_divmod(n, 10).r # 0)

f64_of_decimal(n, k) ==
    IF n = << >> THEN round_f64(n, 0, FALSE)
    ELSE LET limbs == (4 * k) \div 15 + 5
             scaled == tenths([ i \in 1 .. limbs |-> 0 ] \o n, k, FALSE)
         IN  round_f64(scaled.n, 0 - 15 * limbs, scaled.sticky)

\* the f64 literals 1e3, 1e6, ..: the f64 nearest to 10^k
f64_pow10(k) == round_f64(big_pow10(k), 0, FALSE)

\* the f64 of a small whole number
f64_of(n) == round_f64(big(n), 0, FALSE)

\* f64 `*`
times(a, b) ==
    IF a = NaN \/ b = NaN THEN NaN
    ELSE IF a = Infinity \/ b = Infinity
    THEN IF a = Zero \/ b = Zero THEN NaN ELSE Infinity
    ELSE round_f64(big_mul(a.m, b.m), a.x + b.x, FALSE)

\* f64 `/ 8.0`
eighth(a) == IF is_finite(a) THEN round_f64(a.m, a.x - 3, FALSE) ELSE a

\* f64::fract() != 0.0: the fract() of infinity and of NaN is NaN, which
\* is not equal to 0.0
has_fract(a) ==
    \/ ~is_finite(a)
    \/ (a.m # << >> /\ a.x < 0 /\ ~divisible_by_pow2(a.m, 0 - a.x))

\* `as usize`: the whole part of the number, or usize::MAX if that is
\* less; usize::MAX of infinity, and zero of NaN
as_usize(a) ==
    IF a = NaN \/ a = Zero THEN decimal(<< >>)
    ELSE IF a = Infinity \/ a.x >= 64 THEN USIZE_MAX
    ELSE IF a.x >= 0
    THEN IF at_least_pow2(shift_left(a.m, a.x), 64) THEN USIZE_MAX
         ELSE decimal(shift_left(a.m, a.x))
    ELSE decimal(shift_right(a.m, 0 - a.x))

\* parse_si_prefix as a bug would have it: the binary multiples
parse_si_prefix_binary(c) ==
    CASE c = char("k") -> Ok(f64_of(1024))
      [] c = char("M") -> Ok(f64_of(1048576))
      [] c = char("G") -> Ok(f64_of(1073741824))
      [] c = char("T") -> Ok(f64_pow10(12))
      [] c = char("P") -> Ok(f64_pow10(15))
      [] c = char("E") -> Ok(f64_pow10(18))
      [] c = char("Z") -> Ok(f64_pow10(21))
      [] c = char("Y") -> Ok(f64_pow10(24))
      [] OTHER -> Err(<< "'", c, "' is not a supported SI prefix" >>)

\* parse_si_prefix
parse_si_prefix(c) ==
    CASE c = char("k") -> Ok(f64_pow10(3))
      [] c = char("M") -> Ok(f64_pow10(6))
      [] c = char("G") -> Ok(f64_pow10(9))
      [] c = char("T") -> Ok(f64_pow10(12))
      [] c = char("P") -> Ok(f64_pow10(15))
      [] c = char("E") -> Ok(f64_pow10(18))
      [] c = char("Z") -> Ok(f64_pow10(21))
      [] c = char("Y") -> Ok(f64_pow10(24))
      [] OTHER -> Err(<< "'", c, "' is not a supported SI prefix" >>)

\* size_string.chars().position(|c| !c.is_ascii_digit() && c != '.'),
\* counted from zero
suffix_position(str) ==
    LET P == { k \in 1 .. Len(str) :
                 ~is_ascii_digit(str[k]) /\ str[k] # char(".") }
    IN  IF P = {} THEN None ELSE Some(Min(P) - 1)

\* the characters of str that are not c
without(str, c) ==
    LET keep(ch) == ch # c
    IN  SelectSeq(str, keep)

\* number.parse::<f64>() of a string of digits and points: digits with one
\* point at most, before, between or after them, and one digit at least
\* (the f64 nearest to the decimal number written)
parse_f64(number) ==
    LET digits == without(number, char("."))
        points == { k \in 1 .. Len(number) : number[k] = char(".") }
    IN  IF digits = << >> \/ ~all_digits(digits) \/ Cardinality(points) > 1
        THEN Err("ParseFloatError")
        ELSE IF points = {}
        THEN Ok(f64_of_decimal(big_of_decimal(digit_values(digits)), 0))
        ELSE LET point == CHOOSE k \in points : TRUE
             IN  Ok(f64_of_decimal(big_of_decimal(digit_values(digits)),
                                   Len(number) - point))

\* char::len_utf8: the bytes of the UTF-8 encoding of a code point
len_utf8(c) ==
    IF c < 128 THEN 1
    ELSE IF c < 2048 THEN 2
    ELSE IF c < 65536 THEN 3
    ELSE 4

\* str::len(): the length in bytes
RECURSIVE byte_len(_)
byte_len(str) ==
    IF str = << >> THEN 0 ELSE len_utf8(Head(str)) + byte_len(Tail(str))

\* NonZeroUsize::new(n).ok_or(e)
non_zero(n, e) == IF n = << 0 >> THEN Err(e) ELSE Ok(n)

\* what parse_memory_string makes of the number and its suffix once the
\* suffix is known to have two bytes at most: its last character is the
\* ending, the one before, if there is one, the SI prefix
scale_by_suffix(num_bytes, suffix) ==
    LET ending == suffix[Len(suffix)]
        prefix == IF Len(suffix) > 1
                  THEN parse_si_prefix(suffix[Len(suffix) - 1])
                  ELSE Ok(f64_of(1))
    IN  IF ending \notin { char("B"), char("b") }
        THEN Err(<< "the suffix must end with either 'B' or 'b', not '",
                    ending, "'" >>)
        ELSE IF ~is_ok(prefix) THEN prefix
        ELSE IF ending = char("B") THEN Ok(times(num_bytes, prefix[2]))
        ELSE Ok(eighth(times(num_bytes, prefix[2])))

\* parse_memory_string
parse_memory_string(size_string) ==
    IF is_ok(parse_usize(size_string))
    THEN non_zero(parse_usize(size_string)[2],
                  "zero is not a valid value")
    ELSE LET at == suffix_position(size_string)
         IN  IF at = None
             THEN Err("you need to specify a suffix to use non-integer numbers")
             ELSE LET number == SubSeq(size_string, 1, at[1])
                      suffix == SubSeq(size_string, at[1] + 1,
                                       Len(size_string))
                      parsed == parse_f64(number)
                  IN  IF ~is_ok(parsed)
                      THEN Err(<< "could not interpret '", number,
                                  "' as a number" >>)
                      ELSE IF byte_len(suffix) > 2
                      THEN Err("the suffix can be at most two letters long")
                      ELSE LET scaled == scale_by_suffix(parsed[2], suffix)
                           IN  IF ~is_ok(scaled) THEN scaled
                               ELSE IF has_fract(scaled[2])
                               THEN Err("the size must be an integer number of bytes")
                               ELSE non_zero(as_usize(scaled[2]),
                                             "the size must be at least one byte")

(***************************************************************************)
(* The command line's memory_to_monitor argument, handed by clap to        *)
(* parse_memory_string.                                                    *)
(***************************************************************************)
\* the sizes 0 .. MaxSize are drawn, next to those of check_memory_parsing
MaxSize == 3

\* (0..10).map(|i| 2_usize.pow(i))
TestSizes == { decimal_of(pow2(i)) : i \in 0 .. 9 }

\* sizes at the edges of the arithmetic: the largest number of petabytes
\* below 2^64 bytes and the next number; two numbers of which the products
\* by the SI factors and the quarters are rounded; 2^53 + 1, the least
\* whole number that is no f64; usize::MAX and usize::MAX + 1
EdgeSizes ==
    { decimal_of(18446), decimal_of(18447), decimal_of(73787),
      decimal_of(99999),
      decimal(big_add(big_pow2(53), big(1), 0)),
      USIZE_MAX, decimal(big_pow2(64)) }

\* the sizes drawn with a fraction after them
SmallSizes ==
    { decimal_of(n) : n \in 0 .. MaxSize }
    \cup { decimal_of(73787), decimal_of(99999) }

Sizes == SmallSizes \cup TestSizes \cup EdgeSizes

\* the suffixes of check_memory_parsing
TestSuffixes ==
    { text(s) : s \in { << >>, << "k", "B" >>, << "M", "B" >>, << "G", "B" >>,
                       << "T", "B" >>, << "P", "B" >> } }

Suffixes ==
    TestSuffixes \cup
    { text(s) : s \in
        { << "B" >>, << "b" >>, << "k", "b" >>, << "M", "b" >>, << "E", "B" >>,
          << "Z", "B" >>, << "Y", "B" >>, << "k" >>, << "x" >>, << "q", "B" >>,
          << "k", "B", "B" >>, << "µ", "B" >>, << "µ" >>, << "é" >>,
          << "é", "B" >>, << "€" >>, << "€", "B" >>, << "k", "€" >> } }

\* the longest binary fraction drawn
MaxFractionBits == 2

\* str with zeros before it, to a length of n
RECURSIVE pad(_, _)
pad(s, n) == IF Len(s) >= n THEN s ELSE pad(text(<< "0" >>) \o s, n)

\* the fractional parts drawn: a point alone, the point with the b decimal
\* digits of k / 2^b after it (an f64 exactly), and a tenth and a
\* twentieth (no f64 exactly)
FractionStrings ==
    { text(<< "." >>), text(<< ".", "1" >>), text(<< ".", "0", "5" >>) } \cup
    UNION { { text(<< "." >>)
              \o pad(to_string(digits_of(trim(big_scale(big_pow5(b), k,
                                                         0)))), b) :
                  k \in 0 .. pow2(b) - 1 } : b \in 1 .. MaxFractionBits }

\* the arguments drawn: format!("{s}{suffix}"), numbers with a fraction,
\* with and without digits before the point and with and without a suffix,
\* a signed number, and strings without a number
MemoryStrings ==
    { to_string(s) \o suffix : s \in Sizes, suffix \in Suffixes }
    \cup { to_string(s) \o fraction \o suffix :
              s \in SmallSizes, fraction \in FractionStrings,
              suffix \in Suffixes \cup { << >> } }
    \cup { fraction \o suffix :
              fraction \in FractionStrings, suffix \in Suffixes \cup { << >> } }
    \cup { text(<< "+" >>) \o to_string(s) : s \in SmallSizes }
    \cup Suffixes

\* the detector's variables while no Detector is built
NoDetector ==
    /\ rayon \in BOOLEAN
    /\ default = 0
    /\ detector_mass = << >>
    /\ pc = "start"
    /\ op = "none"
    /\ arg = << >>
    /\ ret = << >>
    /\ passes = << >>
    /\ workers = << >>
    /\ found = FALSE
    /\ pos = None
    /\ prev = NoCall
    /\ flipped_cur = FALSE
    /\ primed = {}
    /\ passlog = << >>

detector_vars ==
    << rayon, default, detector_mass, pc, op, arg, ret, passes, workers,
       found, pos, prev, flipped_cur, primed, passlog >>

InitParse ==
    /\ NoDetector
    /\ platform = "linux"
    /\ main = MainNotRun
    /\ cli \in { [ pc |-> "arg", memory_to_monitor |-> str, parsed |-> None ] :
                 str \in MemoryStrings }

\* clap applies the value parser to the argument
ParseMemoryString ==
    /\ cli.pc = "arg"
    /\ cli' = [ cli EXCEPT !.pc = "parsed",
                           !.parsed = Some(parse_memory_string(cli.memory_to_monitor)) ]
    /\ UNCHANGED << detector_vars, platform, main >>

NextParse == ParseMemoryString

SpecParse == InitParse /\ [][NextParse]_vars

(***************************************************************************)
(* The driver, main.rs: it keeps its own buffer (`detector`, a Vec<u8>),   *)
(* resets it, checks it until a byte is not zero, reports, and starts over.*)
(* `main` holds its locals, where it stands (pc) and what it has printed;  *)
(* performed, accesses, rewritten and stale are history kept beside them:  *)
(*   performed  the integrity checks made since the program started        *)
(*   accesses   the kinds of access each step has made to the buffer       *)
(*   rewritten  the indices the program has written since the last         *)
(*              detection (or since the buffer was allocated)              *)
(*   stale      the indices that still hold what a reported detection      *)
(*              (or the random initialisation) left there                  *)
(***************************************************************************)
\* the integrity checks a run of the driver makes at most
MaxChecks == 3

\* a panic with its message
Panic(message) == << "Panic", message >>

\* the last n binary digits of a
low_bits(a, n) ==
    trim([ k \in 1 .. Min({ Len(a), n \div 15 + 1 }) |->
             IF k = n \div 15 + 1 THEN a[k] % pow2(n % 15) ELSE a[k] ])

\* usize `*`: when the product does not fit a usize a build with overflow
\* checks (debug) panics, and one without (release) keeps its last 64
\* binary digits
usize_mul(a, b, overflow_checks) ==
    LET product == big_mul(big_of_decimal(a), big_of_decimal(b))
    IN  IF ~at_least_pow2(product, 64) THEN Ok(decimal(product))
        ELSE IF overflow_checks
        THEN Panic("attempt to multiply with overflow")
        ELSE Ok(decimal(low_bits(product, 64)))

\* parse_size_string of main.rs, in a build with or without overflow checks
parse_size_string(size_string, overflow_checks) ==
    IF is_ok(parse_usize(size_string))
    THEN parse_usize(size_string)
    ELSE LET chars == size_string
             length == Len(chars)
         IN  IF length = 0 THEN Err("memory_to_occupy was empty")
             ELSE IF chars[length] \notin { char("B"), char("b") } \/ length < 2
             THEN Err("memory_to_occupy was incorrectly formatted")
             ELSE LET next_to_last == chars[length - 1]
                      si_prefix_factor ==
                          CASE next_to_last = char("k") -> Ok(f64_pow10(3))
                            [] next_to_last = char("M") -> Ok(f64_pow10(6))
                            [] next_to_last = char("G") -> Ok(f64_pow10(9))
                            [] next_to_last = char("T") -> Ok(f64_pow10(12))
                            [] next_to_last = char("P") -> Ok(f64_pow10(15))
                            [] OTHER ->
                                IF ~is_ascii_digit(next_to_last)
                                THEN Err("unsupported memory size")
                                ELSE Err("could not parse memory size")
                      digits == parse_usize(SubSeq(chars, 1, length - 2))
                  IN  IF ~is_ok(si_prefix_factor) THEN si_prefix_factor
                      ELSE IF ~is_ok(digits) THEN digits
                      ELSE LET bit_size ==
                                   IF chars[length] = char("B")
                                   THEN f64_of(1)
                                   ELSE eighth(f64_of(1))
                               factor ==
                                   as_usize(times(si_prefix_factor[2],
                                                  bit_size))
                           IN  usize_mul(digits[2], factor,
                                         overflow_checks)

\* arguments of which `number * factor` does not fit a usize, and of which
\* the last 64 binary digits of the product are a small number:
\* 2^61 * 1000 = 125 * 2^64, and 2066035336255469781 * 125 =
\* 14 * 2^64 + 1
OverflowStrings ==
    { to_string(decimal(big_pow2(61))) \o text(<< "k", "B" >>),
      to_string(<< 2, 0, 6, 6, 0, 3, 5, 3, 3, 6,
                   2, 5, 5, 4, 6, 9, 7, 8, 1 >>)
          \o text(<< "k", "b" >>) }

\* the arguments drawn for memory_to_occupy: those that are refused, those
\* that ask for MaxLen bytes at most, and those that overflow
SizeStrings ==
    { str \in { to_string(decimal_of(n)) \o suffix :
                    n \in 0 .. MaxLen, suffix \in Suffixes }
              \cup Suffixes \cup OverflowStrings :
        LET size == parse_size_string(str, FALSE)
        IN  is_ok(size)
            => ~big_less(big(MaxLen), big_of_decimal(size[2])) }

\* a buffer of n bytes, each of them b
bytes_of(n, b) == [ k \in 1 .. n |-> b ]

\* the indices of a buffer
indices_of(buffer) == 0 .. Len(buffer) - 1

\* the indices of the bytes that are not zero
not_zero(buffer) == { i \in indices_of(buffer) : buffer[i + 1] # 0 }

\* the indices a reset of the driver writes, were it to leave the first out
reset_indices_after_first(buffer) == 1 .. Len(buffer) - 1

\* the indices a reset of the driver writes: detector.iter_mut()
reset_indices(buffer) == indices_of(buffer)

\* detector.iter_mut().for_each(|n| *n = 0)
reset_buffer(buffer) ==
    [ k \in 1 .. Len(buffer) |->
        IF k - 1 \in reset_indices(buffer) THEN 0 ELSE buffer[k] ]

\* the indices a reset has written a zero to
zeroed(buffer) ==
    { i \in reset_indices(buffer) : reset_buffer(buffer)[i + 1] = 0 }

\* detector_viewer.par_iter().all(..) or detector_viewer.iter().all(..):
\* every part of the buffer, however it is split, holds zeros only
all_zero(buffer, parallel) ==
    \A p \in Partitions(parallel, Len(buffer)) :
        \A w \in 1 .. Len(p) :
            \A i \in p[w][1] .. p[w][2] - 1 : buffer[i + 1] = 0

\* detector.iter().position(|&r| r != 0)
first_not_zero(buffer) ==
    IF not_zero(buffer) = {} THEN None ELSE Some(Min(not_zero(buffer)))

\* the values drawn for the option -d: the default and zero, and values
\* that are no u64 (none, letters, a sign, a fraction)
DelayStrings ==
    { text(s) : s \in
        { << "3", "0", "0", "0", "0" >>, << "0" >>, << >>, << "a", "b", "c" >>,
          << "-", "1" >>, << "1", ".", "5" >> } }

\* the program is started with the options -m memory_size, -d check_delay
\* and, or not, --parallel
InitMain ==
    /\ NoDetector
    /\ platform = "linux"
    /\ cli = CliUnused
    /\ main \in { [ pc |-> "start",
                    args |-> [ memory_size |-> str, check_delay |-> delay,
                               parallel |-> par ],
                    memory_to_occupy |-> << >>, check_delay |-> << 0 >>,
                    parallel |-> FALSE, size |-> 0, detector |-> << >>,
                    checks |-> 0, everything_is_fine |-> FALSE,
                    index |-> None, printed |-> None, byte |-> None,
                    result |-> None, performed |-> 0, accesses |-> {},
                    rewritten |-> {}, stale |-> {} ] :
                  str \in SizeStrings, delay \in DelayStrings,
                  par \in BOOLEAN }

not_main == << detector_vars, platform, cli >>

\* lines 10-13, Config::new(): the options are read; check_delay is parsed
\* to a u64, or main returns the error of the parse
ConfigNew ==
    /\ main.pc = "start"
    /\ LET check_delay == parse_usize(main.args.check_delay)
       IN  main' = IF is_ok(check_delay)
                   THEN [ main EXCEPT !.pc = "size",
                                      !.memory_to_occupy = main.args.memory_size,
                                      !.check_delay = check_delay[2],
                                      !.parallel = main.args.parallel ]
                   ELSE [ main EXCEPT !.pc = "returned",
                                      !.result = Some(check_delay) ]
    /\ UNCHANGED not_main

\* lines 15-18: the size is parsed, or main returns the error, or the
\* product of main.rs:155 overflows and a build with overflow checks panics
ParseSize(overflow_checks) ==
    /\ main.pc = "size"
    /\ LET size == parse_size_string(main.memory_to_occupy, overflow_checks)
       IN  main' = IF is_ok(size)
                   THEN [ main EXCEPT !.pc = "allocate",
                                      !.size = value_of(size[2]) ]
                   ELSE IF size[1] = "Panic"
                   THEN [ main EXCEPT !.pc = "panicked" ]
                   ELSE [ main EXCEPT !.pc = "returned",
                                      !.result = Some(size) ]
    /\ UNCHANGED not_main

\* lines 32-58: the buffer is allocated and filled with random values
Allocate(random) ==
    /\ main.pc = "allocate"
    /\ Len(random) = main.size
    /\ main' = [ main EXCEPT !.pc = "reset",
                             !.detector = random,
                             !.checks = 1,
                             !.accesses =
                                 IF random = << >> THEN @
                                 ELSE @ \cup { << "initialise", "volatile" >> },
                             !.stale = indices_of(random) ]
    /\ UNCHANGED not_main

\* line 32: the allocator cannot provide the buffer, and the process is
\* aborted (a buffer of no bytes is not allocated)
AllocateAborts ==
    /\ main.pc = "allocate"
    /\ main.size > 0
    /\ main' = [ main EXCEPT !.pc = "aborted" ]
    /\ UNCHANGED not_main

\* lines 68-69: the reset at the start of a monitoring cycle
ResetDetector ==
    /\ main.pc = "reset"
    /\ main' = [ main EXCEPT !.pc = "check",
                             !.detector = reset_buffer(@),
                             !.everything_is_fine = TRUE,
                             !.accesses =
                                 IF reset_indices(main.detector) = {} THEN @
                                 ELSE @ \cup { << "reset", "plain" >> },
                             !.rewritten = @ \cup zeroed(main.detector),
                             !.stale = @ \ zeroed(main.detector) ]
    /\ UNCHANGED not_main

\* lines 77-95: one turn of the loop, an integrity check
IntegrityCheck ==
    /\ main.pc = "check"
    /\ main.everything_is_fine
    /\ main.checks <= MaxChecks
    /\ LET fine == all_zero(main.detector, main.parallel)
       IN  main' = [ main EXCEPT !.pc = IF fine THEN "check" ELSE "report",
                                 !.everything_is_fine = fine,
                                 !.checks = @ + 1,
                                 !.performed = @ + 1,
                                 !.accesses =
                                     IF main.detector = << >> THEN @
                                     ELSE @ \cup { << "check", "volatile" >> },
                                 !.rewritten = IF fine THEN @ ELSE {},
                                 !.stale = IF fine THEN @
                                           ELSE not_zero(main.detector) ]
    /\ UNCHANGED not_main

\* lines 98-104: the detection message
Report ==
    /\ main.pc = "report"
    /\ main' = [ main EXCEPT !.pc = "locate", !.printed = Some(main.checks) ]
    /\ UNCHANGED not_main

\* line 105: the changed byte is looked for; unwrap() panics on None
Locate ==
    /\ main.pc = "locate"
    /\ LET found_at == first_not_zero(main.detector)
       IN  main' = [ main EXCEPT !.pc = IF found_at = None THEN "panicked"
                                        ELSE "print",
                                 !.index = found_at,
                                 !.accesses = @ \cup { << "report", "plain" >> } ]
    /\ UNCHANGED not_main

\* line 106: the index and the value of the byte are printed, and the loop
\* starts over
PrintByte ==
    /\ main.pc = "print"
    /\ main' = [ main EXCEPT !.pc = "reset",
                             !.byte = Some(<< main.index[1],
                                              main.detector[main.index[1] + 1] >>),
                             !.index = None ]
    /\ UNCHANGED not_main

\* a byte of the driver's buffer changes without the program writing it
FlipMain(i, v) ==
    /\ main.pc \in { "reset", "check", "report", "locate", "print" }
    /\ i < Len(main.detector)
    /\ main.detector[i + 1] # v
    /\ main' = [ main EXCEPT !.detector[i + 1] = v,
                             !.stale = @ \ { i } ]
    /\ UNCHANGED not_main

NextMain ==
    \/ ConfigNew
    \/ \E overflow_checks \in BOOLEAN : ParseSize(overflow_checks)
    \/ \E n \in 0 .. MaxLen : \E random \in [ 1 .. n -> Bytes ] :
           Allocate(random)
    \/ AllocateAborts
    \/ ResetDetector
    \/ IntegrityCheck
    \/ Report
    \/ Locate
    \/ PrintByte
    \/ \E i \in 0 .. MaxLen - 1, v \in Bytes : FlipMain(i, v)

SpecMain == InitMain /\ [][NextMain]_vars

(***************************************************************************)
(* Detector::new_with_maximum_size and                                     *)
(* Detector::new_with_maximum_size_in_mode                                 *)
(***************************************************************************)
\* the operating systems the model builds for; sysinfo has no
\* implementation for the last one
Platforms == { "linux", "macos", "windows", "freebsd", "openbsd" }

\* sysinfo::IS_SUPPORTED_SYSTEM
IS_SUPPORTED_SYSTEM(os) == os \in { "linux", "macos", "windows", "freebsd" }

\* cfg(any(target_os = "windows", target_os = "freebsd"))
windows_or_freebsd(os) == os \in { "windows", "freebsd" }

\* AllocationMode
AllocationMode == { "Available", "Free" }

\* the figures sysinfo may report, each a u64: those of a buffer the model
\* can hold, and u64::MAX
MemoryFigures == { decimal_of(n) : n \in 0 .. MaxLen } \cup { USIZE_MAX }

\* usize::try_from(x).unwrap_or(usize::MAX), of a 64-bit target
to_usize(x) ==
    IF at_least_pow2(big_of_decimal(x), 64) THEN USIZE_MAX ELSE x

\* a buffer of more than isize::MAX bytes is refused before the allocator
\* is asked: RawVec panics with "capacity overflow"
capacity_overflow(capacity_bytes) ==
    at_least_pow2(big_of_decimal(capacity_bytes), 63)

\* (0..capacity_bytes).map(|_| default).collect()
fill(v, capacity_bytes) == [ k \in 1 .. capacity_bytes |-> v ]

\* the guard as a bug would have it: the platform is never looked at
unsupported_unchecked(os) == FALSE

\* if !sysinfo::IS_SUPPORTED_SYSTEM
unsupported(os) == ~IS_SUPPORTED_SYSTEM(os)

\* the constructor `name` ends: with a panic when capacity_bytes is more
\* than a buffer may have, with a Detector of capacity_bytes bytes, or,
\* when the allocator cannot supply them, with the end of the process
Construct(name, a, v, capacity_bytes, allocated) ==
    /\ op' = name
    /\ arg' = a
    /\ IF capacity_overflow(capacity_bytes)
       THEN /\ pc' = "panicked"
            /\ UNCHANGED << default, detector_mass, ret >>
       ELSE IF allocated \/ capacity_bytes = decimal_of(0)
       THEN /\ default' = v
            /\ detector_mass' = fill(v, value_of(capacity_bytes))
            /\ pc' = "idle"
            /\ ret' = Unit
       ELSE /\ pc' = "aborted"
            /\ UNCHANGED << default, detector_mass, ret >>
    /\ UNCHANGED << rayon, passes, workers, found, pos, prev, flipped_cur,
                    primed, passlog >>
    /\ UNCHANGED others

\* new_with_maximum_size(default), which exists on Windows and FreeBSD
\* only; available is what s.available_memory() answers
NewWithMaximumSize(v, available, allocated) ==
    /\ pc = "start"
    /\ windows_or_freebsd(platform)
    /\ Construct("new_with_maximum_size", << v >>, v, to_usize(available),
                 allocated)

\* new_with_maximum_size_in_mode(default, mode), which exists on every
\* other system; figure is what s.available_memory() or s.free_memory()
\* answers, whichever the mode asks
NewWithMaximumSizeInMode(v, mode, figure, allocated) ==
    /\ pc = "start"
    /\ ~windows_or_freebsd(platform)
    /\ IF unsupported(platform)
       THEN /\ pc' = "panicked"
            /\ op' = "new_with_maximum_size_in_mode"
            /\ arg' = << v, mode >>
            /\ UNCHANGED << rayon, default, detector_mass, ret, passes,
                            workers, found, pos, prev, flipped_cur, primed,
                            passlog >>
            /\ UNCHANGED others
       ELSE Construct("new_with_maximum_size_in_mode", << v, mode >>, v,
                      to_usize(figure), allocated)

(***************************************************************************)
(* The Detector built with as much memory as the system reports, on each   *)
(* of the platforms, and read afterwards.                                  *)
(***************************************************************************)
InitMax ==
    /\ rayon \in BOOLEAN
    /\ default = 0
    /\ detector_mass = << >>
    /\ pc = "start"
    /\ op = "none"
    /\ arg = << >>
    /\ ret = << >>
    /\ passes = << >>
    /\ workers = << >>
    /\ found = FALSE
    /\ pos = None
    /\ prev = NoCall
    /\ flipped_cur = FALSE
    /\ primed = {}
    /\ passlog = << >>
    /\ platform \in Platforms
    /\ main = MainNotRun
    /\ cli = CliUnused

NextMax ==
    \/ \E v \in Bytes, available \in MemoryFigures, allocated \in BOOLEAN :
           NewWithMaximumSize(v, available, allocated)
    \/ \E v \in Bytes, mode \in AllocationMode, figure \in MemoryFigures,
          allocated \in BOOLEAN :
           NewWithMaximumSizeInMode(v, mode, figure, allocated)
    \/ \E index \in 0 .. MaxLen : Get(index)
    \/ \E i \in 0 .. MaxLen - 1, v \in Bytes : Flip(i, v)

SpecMax == InitMax /\ [][NextMax]_vars

(***************************************************************************)
(* Properties.                                                             *)
(***************************************************************************)
\* the call `name` has returned and no bit has flipped since it began
Returned(name) == pc = "idle" /\ op = name /\ ~flipped_cur

\* every index of the buffer
Indices == 0 .. len(detector_mass) - 1

\* C1: reset() followed by is_intact(), with no bit flip since reset began,
\* returns true, whatever was written before, for every default and in
\* both builds.
C1_ResetThenIntact ==
    (Returned("is_intact") /\ prev.op = "reset") => ret = << TRUE >>

C1_Witness ==
    /\ Returned("is_intact") /\ prev.op = "reset"
    /\ default = 0 /\ rayon /\ len(detector_mass) = MaxLen
    /\ ret = << TRUE >>

\* C2: right after write(x), with no bit flip in between, is_intact()
\* returns true if and only if x is the default value.
C2_WriteThenIntact ==
    (Returned("is_intact") /\ prev.op = "write")
        => (ret[1] <=> (prev.arg[1] = default))

\* C3: on a buffer that does not change between the two calls,
\* position_of_changed_element() returns None if and only if is_intact()
\* returns true, in whichever order the two are called.
C3_PositionAgreesWithIntact ==
    /\ (Returned("is_intact") /\ prev.op = "position_of_changed_element")
           => (ret[1] <=> (prev.ret = None))
    /\ (Returned("position_of_changed_element") /\ prev.op = "is_intact")
           => ((ret = None) <=> prev.ret[1])

C3_Witness ==
    /\ Returned("is_intact") /\ prev.op = "position_of_changed_element"
    /\ prev.ret # None /\ ret = << FALSE >> /\ rayon

\* C4: on a buffer at rest the parallel scan (position_any, under every
\* partitioning and interleaving) and the sequential scan (position) agree
\* on whether a changed byte exists.
C4_ScansAgreeOnExistence ==
    Returned("position_of_changed_element")
        => ((ret = None) <=> (position(detector_mass, default) = None))

\* the parallel scan has returned an index that the sequential scan would
\* not have returned
C4_Witness ==
    /\ Returned("position_of_changed_element") /\ rayon
    /\ ret # None /\ ret # position(detector_mass, default)

\* C5: when exactly one byte, at index i, differs from the default and the
\* buffer stays as it is, is_intact() returns false and
\* position_and_value_of_changed_element() returns (i, the byte at i), in
\* both builds.
C5_SingleChange ==
    \A i \in Indices :
        Changed(detector_mass, default) = {i} =>
            /\ Returned("is_intact") => ret = << FALSE >>
            /\ Returned("position_and_value_of_changed_element")
                   => ret = Some(<< i, detector_mass[i + 1] >>)

C5_Witness ==
    /\ Returned("position_and_value_of_changed_element") /\ rayon
    /\ len(detector_mass) = MaxLen
    /\ Changed(detector_mass, default) = {1}
    /\ ret = Some(<< 1, detector_mass[2] >>)

\* C6: when the byte the scan located is back at the default value by the
\* time its value is read, position_and_value_of_changed_element() returns
\* nothing.
C6_FlipBackReturnsNothing ==
    [][ ( /\ pc = "get"
          /\ op = "position_and_value_of_changed_element"
          /\ detector_mass[pos[1] + 1] = default
          /\ pc' = "idle" )
        => ret' = None ]_vars

\* C7: with a zero default every reset() first writes a non-zero priming
\* value to every byte and only once that pass is complete writes zero;
\* with a non-zero default it makes one pass, writing the default.
C7_PrimingBeforeZero ==
    op = "reset" =>
        /\ pc = "write" => Head(passes) = passlog[Len(passlog)]
        /\ IF default = 0
           THEN /\ passlog[1] # 0
                /\ Len(passlog) = 2 =>
                       /\ passlog[2] = 0
                       /\ primed = Indices
                /\ pc = "idle" => Len(passlog) = 2
           ELSE passlog = << default >>

\* the zero pass of a reset is under way, the priming pass having written
\* every byte
C7_Witness ==
    /\ op = "reset" /\ default = 0 /\ pc = "write" /\ rayon
    /\ passes = << 0 >> /\ passlog = << PRIMING, 0 >>
    /\ len(detector_mass) = MaxLen /\ primed = Indices
    /\ \E w \in 1 .. Len(workers) : workers[w].cur > workers[w].lo

\* C8: no Detector of length zero is ever created.
C8_NoEmptyDetector ==
    pc # "start" => len(detector_mass) > 0

\* C9: for every byte v and every n > 0, new(v, n) gives a Detector of
\* length n and default v whose every index in [0, n) reads v through get.
C9_NewFillsWithDefault ==
    /\ (Returned("new") /\ arg[2] > 0) =>
           /\ len(detector_mass) = arg[2]
           /\ default = arg[1]
           /\ \A i \in 0 .. arg[2] - 1 : get(detector_mass, i) = Some(arg[1])
    /\ (Returned("get") /\ prev.op = "new" /\ arg[1] < prev.arg[2])
           => ret = Some(prev.arg[1])

C9_Witness ==
    /\ Returned("get") /\ prev.op = "new" /\ prev.arg = << PRIMING, MaxLen >>
    /\ arg = << MaxLen - 1 >> /\ ret = Some(PRIMING)

\* C10: in the sequential build position_of_changed_element() returns the
\* lowest index whose byte differs from the default, and None when no byte
\* differs.
C10_SequentialLowestIndex ==
    (Returned("position_of_changed_element") /\ ~rayon) =>
        ret = IF Changed(detector_mass, default) = {}
              THEN None
              ELSE Some(Min(Changed(detector_mass, default)))

C10_Witness ==
    /\ Returned("position_of_changed_element") /\ ~rayon
    /\ Cardinality(Changed(detector_mass, default)) > 1
    /\ ret = Some(0)

\* C11: in the parallel build, on a buffer at rest, any index that
\* position_of_changed_element() returns lies in [0, len) and the byte there
\* differs from the default; it need not be the lowest such index.
C11_ParallelIndexIsAChange ==
    (Returned("position_of_changed_element") /\ rayon /\ ret # None) =>
        /\ ret[1] \in Indices
        /\ detector_mass[ret[1] + 1] # default

\* every byte differs from the default and the parallel scan returned the
\* highest index
C11_Witness ==
    /\ Returned("position_of_changed_element") /\ rayon
    /\ len(detector_mass) = MaxLen
    /\ Changed(detector_mass, default) = Indices
    /\ ret = Some(MaxLen - 1)

\* C12: reset() is idempotent: a second reset() right after a first one
\* leaves the buffer (contents and length) and the default as the first
\* one left them.
C12_ResetIdempotent ==
    (Returned("reset") /\ prev.op = "reset") =>
        /\ detector_mass = prev.mass
        /\ len(detector_mass) = len(prev.mass)
        /\ default = prev.default

C12_Witness ==
    /\ Returned("reset") /\ prev.op = "reset"
    /\ default = 0 /\ rayon /\ len(detector_mass) = MaxLen
    /\ detector_mass = prev.mass

\* C13: get(index) returns Some(the byte at index) when index < len and
\* None when index >= len, and leaves the buffer and the default as they
\* were.
C13_GetBoundsChecked ==
    Returned("get") =>
        /\ ret = IF arg[1] < len(detector_mass)
                 THEN Some(detector_mass[arg[1] + 1]) ELSE None
        /\ prev.op # "none" =>
               /\ detector_mass = prev.mass
               /\ default = prev.default

\* get was called with the first index past the end of a full-size buffer
C13_Witness ==
    /\ Returned("get") /\ prev.op # "none"
    /\ len(detector_mass) = MaxLen /\ arg = << MaxLen >> /\ ret = None

\* the partitions of the workers ws are disjoint and together cover
\* [0, n): each begins where the one before it ends
Covers(ws, n) ==
    /\ Len(ws) > 0
    /\ ws[1].lo = 0
    /\ ws[Len(ws)].hi = n
    /\ \A w \in 1 .. Len(ws) :
           /\ ws[w].lo <= ws[w].cur /\ ws[w].cur <= ws[w].hi
           /\ w < Len(ws) => ws[w].hi = ws[w + 1].lo

\* C19: in the parallel build write(value) gives every index of the buffer
\* to exactly one worker, and returns only once every partition is done:
\* on return every byte equals value, under every interleaving.
C19_ParallelWriteCoversAll ==
    /\ (pc = "write" /\ rayon) => Covers(workers, len(detector_mass))
    /\ (pc = "write" /\ rayon /\ ~flipped_cur) =>
           \A w \in 1 .. Len(workers) :
               \A i \in workers[w].lo .. workers[w].cur - 1 :
                   detector_mass[i + 1] = Head(passes)
    /\ (Returned("write") /\ rayon) =>
           \A i \in Indices : detector_mass[i + 1] = arg[1]

\* a parallel write over two partitions has returned
C19_Witness ==
    /\ Returned("write") /\ rayon /\ len(detector_mass) = MaxLen
    /\ arg[1] # default
    /\ \A i \in Indices : detector_mass[i + 1] = arg[1]

\* the constructors that size the Detector from the memory of the system
MaximumSizeConstructors ==
    { "new_with_maximum_size", "new_with_maximum_size_in_mode" }

\* C14: on a platform whose memory figures sysinfo cannot supply, the
\* maximum-size construction ends in the unsupported-platform failure and
\* never produces a Detector, of zero bytes or of any other size, whichever
\* constructor the build has.
C14_UnsupportedPlatformFails ==
    (pc # "start" /\ ~IS_SUPPORTED_SYSTEM(platform)) =>
        /\ op \in MaximumSizeConstructors
        /\ pc = "panicked"
        /\ detector_mass = << >>
        /\ ret = << >>

C14_Witness ==
    /\ platform = "openbsd" /\ pc = "panicked"
    /\ op = "new_with_maximum_size_in_mode" /\ arg = << 0, "Free" >>

\* C15: when the allocator cannot satisfy capacity_bytes, new hands its
\* caller an AllocationError; it never returns a Detector shorter than asked
\* for.
\* Violated: new returns Self, not a Result; when collect() cannot get the
\* bytes the process is aborted inside the call, and the caller gets no
\* error to handle.
C15_AllocationErrorPropagated ==
    (op = "new" /\ pc # "start") =>
        /\ pc = "idle"
        /\ \/ ret = Err("AllocationError")
           \/ len(detector_mass) = arg[2]

(***************************************************************************)
(* C18.  For every positive integer s, parse_memory_string returns exactly *)
(* s for "s", and s*10^3, s*10^6, s*10^9, s*10^12, s*10^15 for "skB",      *)
(* "sMB", "sGB", "sTB", "sPB", with no error.                              *)
(***************************************************************************)
\* the power of ten the test expects of a suffix of check_memory_parsing
TestExponent(suffix) ==
    CASE suffix = << >> -> 0
      [] suffix = text(<< "k", "B" >>) -> 3
      [] suffix = text(<< "M", "B" >>) -> 6
      [] suffix = text(<< "G", "B" >>) -> 9
      [] suffix = text(<< "T", "B" >>) -> 12
      [] suffix = text(<< "P", "B" >>) -> 15

\* a without its factors of two
RECURSIVE odd_part(_)
odd_part(a) == IF a = << >> \/ odd(a) THEN a ELSE odd_part(half(a))

\* s * 10^k is a usize, and, where the string has a suffix and so is
\* parsed as an f64, an f64: it is an odd number below 2^53 times a power
\* of two
FitsExactly(s, k) ==
    LET product == big_mul(big_of_decimal(s), big_pow10(k))
    IN  /\ ~at_least_pow2(product, 64)
        /\ k > 0 => ~at_least_pow2(odd_part(product), 53)

\* the decimal digits of s * 10^k
shifted(s, k) == decimal(big_mul(big_of_decimal(s), big_pow10(k)))

\* the argument is format!("{s}{suffix}")
IsArgument(s, suffix) == cli.memory_to_monitor = to_string(s) \o suffix

\* the argument was parsed to s * 10^exponent
ParsedExactly(s, suffix) ==
    cli.parsed = Some(Ok(shifted(s, TestExponent(suffix))))

\* C18 as stated, for every positive s drawn: violated by "18447PB", which
\* is 2^64 bytes or more and comes back as usize::MAX, and by
\* "9007199254740993kB", of which the number is rounded to 2^53
C18_EveryPositiveSize ==
    cli.pc = "parsed" =>
        \A s \in Sizes \ { decimal_of(0) }, suffix \in TestSuffixes :
            IsArgument(s, suffix) => ParsedExactly(s, suffix)

\* C18 amended: "s" parses to exactly s for every positive s up to
\* usize::MAX, and "skB", "sMB", "sGB", "sTB", "sPB" parse to exactly
\* s*10^3, s*10^6, s*10^9, s*10^12, s*10^15 whenever that product is at most
\* usize::MAX and is an f64 exactly, with no error
C18_SizesThatFit ==
    cli.pc = "parsed" =>
        \A s \in Sizes \ { decimal_of(0) }, suffix \in TestSuffixes :
            (IsArgument(s, suffix) /\ FitsExactly(s, TestExponent(suffix)))
                => ParsedExactly(s, suffix)

\* "18446PB", the largest number of petabytes that fits, has been parsed
\* to 18446 * 10^15
C18_Witness ==
    /\ cli.pc = "parsed"
    /\ cli.memory_to_monitor = text(<< "1", "8", "4", "4", "6", "P", "B" >>)
    /\ cli.parsed = Some(Ok(shifted(decimal_of(18446), 15)))

(***************************************************************************)
(* C16.  Steady-state scanning has no error path: whatever the bit flips,  *)
(* a flipped byte reverting before it is located for the report included,  *)
(* the driver loop never aborts or panics.                                 *)
(* Violated: a byte that is zero again when line 105 looks for it leaves   *)
(* position() with None, and unwrap() panics.                              *)
(* The loop is entered with checks = 1; a panic before it (the product of  *)
(* main.rs:155 overflowing while the size is parsed) is no part of the     *)
(* scanning.                                                               *)
(***************************************************************************)
C16_DriverNeverPanics == ~(main.pc = "panicked" /\ main.checks > 0)

(***************************************************************************)
(* C17.  Every read and every write of the monitored buffer goes through   *)
(* a volatile access; no step of the driver touches the buffer through a   *)
(* plain access.                                                           *)
(* Violated: the driver's reset writes with `*n = 0`, and its report reads *)
(* the buffer through a plain iterator and a plain index.                  *)
(***************************************************************************)
C17_AllAccessesVolatile ==
    \A access \in main.accesses : access[2] = "volatile"

(***************************************************************************)
(* C20.  The driver resets the buffer at the start of every monitoring     *)
(* cycle: whenever an integrity check is due, every byte has been          *)
(* rewritten to zero since the last detection (and since the random        *)
(* initialisation), so no byte still holds a mismatch that was reported.   *)
(***************************************************************************)
C20_ResetBeforeEveryCheck ==
    main.pc = "check" =>
        /\ main.rewritten = indices_of(main.detector)
        /\ main.stale = {}

\* a detection has been reported in full, and the next cycle has reset the
\* whole buffer and made a check that found nothing
C20_Witness ==
    /\ main.pc = "check"
    /\ main.byte # None
    /\ main.printed # None
    /\ main.performed > main.printed[1] - 1
    /\ main.detector = bytes_of(MaxLen, 0)

(***************************************************************************)
(* C21.  The check number printed in the detection message is the ordinal, *)
(* counted from 1 since the program started, of the integrity check that   *)
(* found the mismatch: it equals the number of integrity checks performed  *)
(* so far.                                                                 *)
(* Violated: `checks` starts at 1 and is incremented after every check,    *)
(* the failing one included, before the message is printed, so the number  *)
(* printed is one more than the checks performed.                          *)
(***************************************************************************)
C21_PrintedIsChecksPerformed ==
    main.pc = "locate" => main.printed = Some(main.performed)

====
